---- MODULE Spec2Model ----
(***************************************************************************)
(* The contextual logger of @wire/logger: create_logger's Logger class,    *)
(* the AsyncLocalStorage binding behind use_logger/cast, the global logger *)
(* and the dispatch/timeout/interval helpers, as one state machine.        *)
(*                                                                         *)
(* Strings are sequences of tokens, "." being the separator token, so that *)
(* `${a}.${b}` is a \o <<".">> \o b.  An optional value is a sequence of   *)
(* length 0 (undefined) or 1.  Object references are indices into heaps    *)
(* (ents, metas); 0 is the undefined reference.                           *)
(***************************************************************************)
EXTENDS Integers, Sequences, FiniteSets, TLC

\* ---------------------------------------------------------------- bounds
MaxEnts == 3
MaxInit == 2
MaxTrace == 2
MaxTasks == 3

\* ------------------------------------------------------- program constants
debug3 == 7

Levels == 0..debug3

LogLevelNameMap ==
  <<"emergency", "alert", "error", "warning", "info", "debug1", "debug2", "debug3">>

LevelNames == {LogLevelNameMap[i] : i \in 1..Len(LogLevelNameMap)}

LevelOf(name) == CHOOSE l \in Levels : LogLevelNameMap[l + 1] = name

\* ------------------------------------------------------------ value model
Undefined == <<>>
Some(v) == <<v>>
NoEnt == 0

Dot == "."

EmptyMeta == [k \in {} |-> 0]

\* ----------------------------------------------------------------- inputs
Keys == {"id", "k"}
DataCodes == {Undefined, Some(<<"c">>)}
Transports == {"ok", "raise"}

\* upd_meta arguments an actor passes: one key, tagged with the actor
\* (0 is the top-level code, f > 0 the callback of scope f)
UpdArgs(tag) == {[k \in {key} |-> tag] : key \in IF tag = 0 THEN {"id"} ELSE Keys}

VARIABLES
  classes,   \* one per create_logger call: the level and the prototype built from it
  ents,      \* heap of Logger instances
  metas,     \* heap of meta objects
  origin,    \* per Logger instance: how it was made and from which instance
  Global,    \* GlobalLogger
  store,     \* asyncLocalStorage.getStore() of the running code
  frames,    \* asyncLocalStorage.run calls in progress, innermost last
  flows,     \* the callbacks given to cast and where each stands
  tasks,     \* timers and promise reactions waiting in the event loop
  segs,      \* per Logger instance: the segments stacked on it or inherited by it
  last,      \* the call the latest step made
  sends,     \* the transport invocations of the latest step, in order
  outcome    \* how the latest step ended: "ok", "threw", "uncaught"

vars == <<classes, ents, metas, origin, Global, store, frames, flows, tasks, segs,
          last, sends, outcome>>

\* ------------------------------------------------------------- pure parts

BuildPrototypeStrict(level) ==
  [name \in LevelNames |-> IF LevelOf(name) < level THEN "log" ELSE "noop"]

\* the loop over LogLevelNameMap.entries() that fills Logger.prototype
BuildPrototype(level) ==
  [name \in LevelNames |-> IF LevelOf(name) <= level THEN "log" ELSE "noop"]

\* new Logger(send, meta, _stack)
NewLogger(send, meta, stack, cls) ==
  [send |-> send, meta |-> meta, trace |-> stack, cls |-> cls]

Overwrite(target, src) == src

\* Object.assign(target, src)
ObjectAssign(target, src) ==
  [k \in (DOMAIN target) \cup (DOMAIN src) |->
     IF k \in DOMAIN src THEN src[k] ELSE target[k]]

SpreadNothing(m) == EmptyMeta

\* { ...this.meta }
Spread(m) == [k \in DOMAIN m |-> m[k]]

StackPrepend(cur, seg) ==
  IF cur = Undefined THEN Some(<<seg>>) ELSE Some(<<seg>> \o <<Dot>> \o cur[1])

\* this._stack === undefined ? stack : `${this._stack}.${stack}`
StackStr(cur, seg) ==
  IF cur = Undefined THEN Some(<<seg>>) ELSE Some(cur[1] \o <<Dot>> \o <<seg>>)

\* the code log leaves in data.code
ComposeCode(trace, code) ==
  IF trace # Undefined
    THEN IF code = Undefined THEN trace ELSE Some(trace[1] \o <<Dot>> \o code[1])
    ELSE code

\* asyncLocalStorage.getStore() ?? GlobalLogger
use_logger == IF store # NoEnt THEN store ELSE Global

\* the code running now: 0 is top-level code, f > 0 the callback of scope f
Actor == IF frames = <<>> THEN 0 ELSE frames[Len(frames)].flow

MetaOf(e) == metas[ents[e].meta]

NumSegs(trace) == IF trace = Undefined THEN 0 ELSE (Len(trace[1]) + 1) \div 2

\* this.send(lvl, data, this.meta), as the transport sees it
SendCall(e, lvl, code, err) ==
  [tr |-> ents[e].send, lvl |-> lvl, code |-> code, error |-> err,
   meta |-> MetaOf(e), ent |-> e, by |-> Actor, res |-> "ok"]

\* the transport invocations ss of a call, the transport returning ("ok") or
\* raising ("raise")
Answered(ss, tx) == [i \in 1..Len(ss) |-> [ss[i] EXCEPT !.res = tx]]

Swallowed(tx) == "ok"

\* how a call ends whose this.send(...) is not inside a try
SendOutcome(tx) == IF tx = "raise" THEN "threw" ELSE "ok"

LogSendsTwice(e, lvl, code, err) ==
  <<SendCall(e, lvl, ComposeCode(ents[e].trace, code), err),
    SendCall(e, lvl, ComposeCode(ents[e].trace, code), err)>>

\* Logger.log
LogSends(e, lvl, code, err) ==
  <<SendCall(e, lvl, ComposeCode(ents[e].trace, code), err)>>

\* what is kept of a call: the operation, its receiver, its level, the
\* data.code it logs with and the failure it handles
FailCall(op, e, lvl, code, err) ==
  [op |-> op, ent |-> e, lvl |-> lvl, code |-> code, err |-> err]

\* a call of log or of a level method: data is the code the call leaves in
\* the data mapping it was given
LogCall(op, e, lvl, code, data) ==
  [op |-> op, ent |-> e, lvl |-> lvl, code |-> code, err |-> Undefined,
   data |-> data]

Call(op, e, lvl) == FailCall(op, e, lvl, Undefined, Undefined)

\* ------------------------------------------------- failures and formatter
StackSep == "\n    at "

NoProps == [k \in {} |-> ""]

\* a value that is no Error, thrown or rejected with
PlainFailure == [isError |-> FALSE, value |-> "boom"]

\* new Error("x"), with the stack the engine gives it
ErrorNoCause ==
  [isError |-> TRUE, class |-> "Error", message |-> "x", own |-> NoProps,
   stack |-> Some(<<"Error: x", StackSep, "f (a.ts:1:1)", StackSep, "g (a.ts:2:2)">>),
   cause |-> Undefined]

\* an Error subclass instance with an own property, a cause and no stack
ErrorWithCause ==
  [isError |-> TRUE, class |-> "TypeError", message |-> "y",
   own |-> [k \in {"errno"} |-> "E1"], stack |-> Undefined,
   cause |-> Some(ErrorNoCause)]

Failures == {PlainFailure, ErrorNoCause, ErrorWithCause}

\* the error setTimeout throws when it cannot register the callback
SchedulingError ==
  [isError |-> TRUE, class |-> "TypeError", message |-> "t", own |-> NoProps,
   stack |-> Undefined, cause |-> Undefined]

\* JavaScript truthiness of an optional value
Truthy(v) == v # Undefined /\ (v[1].isError \/ v[1].value # "")

RECURSIVE Split(_, _)
\* String.prototype.split(sep)
Split(str, sep) ==
  IF \E i \in 1..Len(str) : str[i] = sep
    THEN LET i == CHOOSE j \in 1..Len(str) :
                    str[j] = sep /\ \A h \in 1..(j - 1) : str[h] # sep
         IN <<SubSeq(str, 1, i - 1)>> \o Split(SubSeq(str, i + 1, Len(str)), sep)
    ELSE <<str>>

\* format_error_stack: the lines after the first
format_error_stack(stk) ==
  IF stk = Undefined THEN Undefined ELSE Some(Tail(Split(stk[1], StackSep)))

RECURSIVE format_error(_)
\* format_error
format_error(error) ==
  IF error.isError
    THEN [own |-> Spread(error.own),
          _class |-> error.class,
          _message |-> error.message,
          _stack |-> format_error_stack(error.stack),
          _cause |-> IF Truthy(error.cause) THEN Some(format_error(error.cause[1]))
                     ELSE Undefined]
    ELSE error

\* the formatters a logger is configured with: the library's format_error
\* and (e) => e
Formatters == {"format_error", "identity"}

\* the call of the configured formatter
Format(fmt, err) == IF fmt = "format_error" THEN format_error(err) ELSE err

DispatchFailedRaw(fmt, err) ==
  [code |-> Some(<<"dispatch_failed">>), error |-> Some(err)]

\* { code: 'dispatch_failed', error: format_error(e) }
DispatchFailed(fmt, err) ==
  [code |-> Some(<<"dispatch_failed">>), error |-> Some(Format(fmt, err))]

\* { code: 'timeout_failed', error }
TimeoutFailed(err) == [code |-> Some(<<"timeout_failed">>), error |-> Some(err)]

Init ==
  /\ classes = <<>>
  /\ ents = <<>>
  /\ metas = <<>>
  /\ origin = <<>>
  /\ Global = NoEnt
  /\ store = NoEnt
  /\ frames = <<>>
  /\ flows = <<>>
  /\ tasks = <<>>
  /\ segs = <<>>
  /\ last = Call("start", NoEnt, 0)
  /\ sends = <<>>
  /\ outcome = "ok"

RedeclareClass(cs, c) == IF cs = <<>> THEN <<c>> ELSE [cs EXCEPT ![Len(cs)] = c]

\* class Logger is declared inside create_logger: one class per call
DeclareClass(cs, c) == Append(cs, c)

\* init_logger(opts): GlobalLogger = create_logger(opts); the transport of
\* the call is named after the class the call declares
init_logger(level, fmt) ==
  /\ Len(classes) < MaxInit
  /\ Len(ents) < MaxEnts
  /\ classes' = DeclareClass(classes, [level |-> level, fmt |-> fmt,
                                       proto |-> BuildPrototype(level)])
  /\ metas' = Append(metas, EmptyMeta)
  /\ ents' = Append(ents, NewLogger(Len(classes'), Len(metas) + 1, Undefined,
                                    Len(classes')))
  /\ origin' = Append(origin, [how |-> "root", from |-> NoEnt])
  /\ segs' = Append(segs, <<>>)
  /\ Global' = Len(ents) + 1
  /\ last' = Call("init_logger", Len(ents) + 1, level)
  /\ sends' = <<>>
  /\ outcome' = "ok"
  /\ UNCHANGED <<store, frames, flows, tasks>>

\* the TypeError of reading a property of undefined
TypeErrorUndefined ==
  [isError |-> TRUE, class |-> "TypeError", message |-> "undefined", own |-> NoProps,
   stack |-> Undefined, cause |-> Undefined]

\* the calls made through use_logger()
UseOps == {"use_logger", "cast_logger", "clone_logger", "method"}

\* use_logger() while no scope is active and GlobalLogger is unassigned: it
\* returns undefined, and a method call on that value is a TypeError
uninitialized(op) ==
  /\ use_logger = NoEnt
  /\ last' = FailCall(op, use_logger, 0, Undefined,
                      IF op = "use_logger" THEN Undefined ELSE Some(TypeErrorUndefined))
  /\ outcome' = IF op = "use_logger" THEN "ok" ELSE "threw"
  /\ sends' = <<>>
  /\ UNCHANGED <<classes, ents, metas, origin, Global, store, frames, flows, tasks, segs>>

\* the instances the running code mutates: the one use_logger() gives it, and
\* the ones it holds (a callback its own, top-level code the unscoped ones)
Held ==
  IF Actor = 0
    THEN {e \in 1..Len(ents) : origin[e].how # "scope"}
    ELSE {flows[Actor].ent}

MutTargets == (Held \cup {use_logger}) \ {NoEnt}

RECURSIVE Ancestors(_)
\* the instances e was derived from, directly or not
Ancestors(e) ==
  IF e = NoEnt \/ origin[e].from = NoEnt THEN {}
  ELSE {origin[e].from} \cup Ancestors(origin[e].from)

\* the instances the running code calls cast on: those above, and for a
\* callback the enclosing instances its closure captures
CastTargets ==
  MutTargets \cup (IF Actor = 0 THEN {} ELSE Ancestors(flows[Actor].ent))

LogTargets == MutTargets

Noted(f, m) ==
  IF Actor = 0 THEN flows
  ELSE [flows EXCEPT ![Actor].wrote = @ \cup DOMAIN m]

\* Logger.upd_meta
upd_meta(e, m) ==
  /\ e \in MutTargets
  /\ metas' = [metas EXCEPT ![ents[e].meta] = ObjectAssign(@, m)]
  /\ flows' = Noted(Actor, m)
  /\ last' = Call("upd_meta", e, 0)
  /\ sends' = <<>>
  /\ outcome' = "ok"
  /\ UNCHANGED <<classes, ents, origin, Global, store, frames, tasks, segs>>

\* stack arguments: "a" opens a trace, "b" extends one
SegArgs(e) == IF ents[e].trace = Undefined THEN {"a"} ELSE {"b"}

\* Logger.stack
stack(e, seg) ==
  /\ e \in MutTargets
  /\ NumSegs(ents[e].trace) < MaxTrace
  /\ seg \in SegArgs(e)
  /\ ents' = [ents EXCEPT ![e].trace = StackStr(@, seg)]
  /\ segs' = [segs EXCEPT ![e] = Append(@, seg)]
  /\ last' = Call("stack", e, 0)
  /\ sends' = <<>>
  /\ outcome' = "ok"
  /\ UNCHANGED <<classes, metas, origin, Global, store, frames, flows, tasks>>

\* Logger.log called directly
log(e, lvl, code, tx) ==
  /\ e \in LogTargets
  /\ sends' = Answered(LogSends(e, lvl, code, Undefined), tx)
  /\ outcome' = SendOutcome(tx)
  /\ last' = LogCall("log", e, lvl, code, ComposeCode(ents[e].trace, code))
  /\ UNCHANGED <<classes, ents, metas, origin, Global, store, frames, flows, tasks, segs>>

\* Logger.prototype[name]: this.log(lvl, data) or the empty function
method(e, name, code, tx) ==
  /\ e \in LogTargets
  /\ LET lvl == LevelOf(name)
         active == classes[ents[e].cls].proto[name] = "log"
     IN /\ sends' = IF active THEN Answered(LogSends(e, lvl, code, Undefined), tx)
                   ELSE <<>>
        /\ outcome' = IF active THEN SendOutcome(tx) ELSE "ok"
        /\ last' = LogCall("method", e, lvl, code,
                           IF active THEN ComposeCode(ents[e].trace, code) ELSE code)
  /\ UNCHANGED <<classes, ents, metas, origin, Global, store, frames, flows, tasks, segs>>

ClassOfGlobal(e) == ents[Global].cls

\* Logger in new Logger(...): the class of the create_logger call that made e
ClassOf(e) == ents[e].cls

SharedMeta(e) == ents[e].meta

\* the meta reference of a Logger made from e: a fresh object holding a copy
CopiedMeta(e) == Len(metas) + 1

\* new Logger(this.send, { ...this.meta }, this._stack)
Derive(e, how) ==
  /\ Len(ents) < MaxEnts
  /\ metas' = Append(metas, Spread(MetaOf(e)))
  /\ ents' = Append(ents, NewLogger(ents[e].send, CopiedMeta(e), ents[e].trace,
                                    ClassOf(e)))
  /\ origin' = Append(origin, [how |-> how, from |-> e])
  /\ segs' = Append(segs, segs[e])

\* Logger.clone
clone(e) ==
  /\ e \in LogTargets
  /\ Derive(e, "clone")
  /\ last' = Call("clone", e, 0)
  /\ sends' = <<>>
  /\ outcome' = "ok"
  /\ UNCHANGED <<classes, Global, store, frames, flows, tasks>>

\* Logger.cast up to the call of the callback:
\* asyncLocalStorage.run(next, callback, next) binds next and enters callback
cast(e) ==
  /\ e \in CastTargets
  /\ Derive(e, "scope")
  /\ flows' = Append(flows, [ent |-> Len(ents) + 1, st |-> "run", saved |-> NoEnt,
                             resumed |-> FALSE, wrote |-> {},
                             before |-> use_logger])
  /\ frames' = Append(frames, [flow |-> Len(flows) + 1, prev |-> store])
  /\ store' = Len(ents) + 1
  /\ last' = Call("cast", e, 0)
  /\ sends' = <<>>
  /\ outcome' = "ok"
  /\ UNCHANGED <<classes, Global, tasks>>

KeepStore(fr) == store

\* the store asyncLocalStorage.run puts back when the callback leaves
PrevStore(fr) == fr.prev

NotRestored(f) == store

\* the store a continuation of scope f runs with
Restored(f) == flows[f].saved

\* asyncLocalStorage.run leaving the callback: the previous store is back
Leave(op, st, res) ==
  /\ frames # <<>>
  /\ LET f == Actor
         top == frames[Len(frames)]
     IN /\ flows' = [flows EXCEPT ![f].st = st, ![f].saved = store]
        /\ frames' = SubSeq(frames, 1, Len(frames) - 1)
        /\ store' = PrevStore(top)
        /\ last' = Call(op, flows[f].ent, 0)
  /\ sends' = <<>>
  /\ outcome' = res
  /\ UNCHANGED <<classes, ents, metas, origin, Global, tasks, segs>>

\* the callback reaches an await: run returns the pending promise
await ==
  /\ frames # <<>>
  /\ ~flows[Actor].resumed
  /\ Leave("await", "susp", "ok")

\* the callback (or its continuation) returns
return == Leave("return", "done", "ok")

\* the callback (or its continuation) throws
throw == Leave("throw", "done", IF flows[Actor].resumed THEN "rejected" ELSE "threw")

\* the event loop resumes the continuation of scope f
resume(f) ==
  /\ frames = <<>>
  /\ f \in 1..Len(flows)
  /\ flows[f].st = "susp"
  /\ flows' = [flows EXCEPT ![f].st = "run", ![f].resumed = TRUE]
  /\ frames' = <<[flow |-> f, prev |-> store]>>
  /\ store' = Restored(f)
  /\ last' = Call("resume", flows[f].ent, 0)
  /\ sends' = <<>>
  /\ outcome' = "ok"
  /\ UNCHANGED <<classes, ents, metas, origin, Global, tasks, segs>>

\* ------------------------------------------------- dispatch and the timers
\* what calling the action gives: an exception thrown by the call itself, or
\* a promise
ActionKinds == {"throws", "promise"}

\* the state of instance e that a log call on it would use
StateOf(e) == [meta |-> MetaOf(e), trace |-> ents[e].trace]

\* a pending promise of an action with the catch handler attached to it: the
\* action is in progress; id names the interval call it belongs to (0: none),
\* at keeps the state of the instance when the action was dispatched
Reaction(e, lvl, src, id) ==
  [kind |-> "reaction", src |-> src, ent |-> e, lvl |-> lvl, id |-> id,
   at |-> StateOf(e)]

\* a pending setTimeout callback
Timer(e, lvl, src, id) ==
  [kind |-> "timer", src |-> src, ent |-> e, lvl |-> lvl, id |-> id]

Without(ts, i) == SubSeq(ts, 1, i - 1) \o SubSeq(ts, i + 1, Len(ts))

\* a name for a new interval call: the closure launch of that call
NewId(ts) ==
  CHOOSE n \in 1..MaxTasks :
    /\ \A i \in 1..Len(ts) : ts[i].id # n
    /\ \A m \in 1..(n - 1) : \E i \in 1..Len(ts) : ts[i].id = m

\* action().catch(handler): the handler waits for the promise the action gave
Dispatched(ts, e, lvl, act, src, id) ==
  IF act = "throws" THEN ts ELSE Append(ts, Reaction(e, lvl, src, id))

\* Logger.dispatch
dispatch(e, lvl, act) ==
  /\ e \in LogTargets
  /\ Len(tasks) < MaxTasks
  /\ tasks' = Dispatched(tasks, e, lvl, act, "dispatch", 0)
  /\ outcome' = IF act = "throws" THEN "threw" ELSE "ok"
  /\ last' = Call("dispatch", e, lvl)
  /\ sends' = <<>>
  /\ UNCHANGED <<classes, ents, metas, origin, Global, store, frames, flows, segs>>

\* Logger.timeout
timeout(e, lvl, sched, tx) ==
  /\ e \in LogTargets
  /\ Len(tasks) < MaxTasks
  /\ IF sched = "ok"
       THEN /\ tasks' = Append(tasks, Timer(e, lvl, "timeout", 0))
            /\ sends' = <<>>
            /\ outcome' = "ok"
            /\ last' = Call("timeout", e, lvl)
       ELSE /\ tasks' = tasks
            /\ sends' = Answered(LogSends(e, lvl, TimeoutFailed(SchedulingError).code,
                                          TimeoutFailed(SchedulingError).error), tx)
            /\ outcome' = SendOutcome(tx)
            /\ last' = FailCall("timeout", e, lvl, TimeoutFailed(SchedulingError).code,
                                Some(SchedulingError))
  /\ UNCHANGED <<classes, ents, metas, origin, Global, store, frames, flows, segs>>

\* launch: this.dispatch(lvl, action); setTimeout(launch, period)
Launched(ts, e, lvl, act, id) ==
  IF act = "throws" THEN ts
  ELSE Append(Dispatched(ts, e, lvl, act, "interval", id),
              Timer(e, lvl, "interval", id))

\* Logger.interval
interval(e, lvl, act) ==
  /\ e \in LogTargets
  /\ Len(tasks) + 2 <= MaxTasks
  /\ tasks' = Launched(tasks, e, lvl, act, NewId(tasks))
  /\ outcome' = IF act = "throws" THEN "threw" ELSE "ok"
  /\ last' = Call("interval", e, lvl)
  /\ sends' = <<>>
  /\ UNCHANGED <<classes, ents, metas, origin, Global, store, frames, flows, segs>>

\* a timer fires: the callback given to setTimeout runs
\* (() => this.dispatch(lvl, action) for timeout, launch for interval)
fire(i, act) ==
  /\ frames = <<>>
  /\ i \in 1..Len(tasks)
  /\ tasks[i].kind = "timer"
  /\ LET t == tasks[i]
         rest == Without(tasks, i)
     IN /\ IF t.src = "timeout"
             THEN tasks' = Dispatched(rest, t.ent, t.lvl, act, "timeout", 0)
             ELSE /\ Len(rest) + 2 <= MaxTasks
                  /\ tasks' = Launched(rest, t.ent, t.lvl, act, t.id)
        /\ last' = Call(IF t.src = "timeout" THEN "timeout_fired" ELSE "interval_fired",
                        t.ent, t.lvl)
  /\ outcome' = IF act = "throws" THEN "uncaught" ELSE "ok"
  /\ sends' = <<>>
  /\ UNCHANGED <<classes, ents, metas, origin, Global, store, frames, flows, segs>>

\* the promise of a dispatched action fulfils: the catch handler does not run
resolve(i) ==
  /\ frames = <<>>
  /\ i \in 1..Len(tasks)
  /\ tasks[i].kind = "reaction"
  /\ tasks' = Without(tasks, i)
  /\ last' = Call("resolve", tasks[i].ent, tasks[i].lvl)
  /\ outcome' = "ok"
  /\ sends' = <<>>
  /\ UNCHANGED <<classes, ents, metas, origin, Global, store, frames, flows, segs>>

HandlerSendsCaptured(t, data) ==
  <<[SendCall(t.ent, t.lvl, ComposeCode(t.at.trace, data.code), data.error)
       EXCEPT !.meta = t.at.meta]>>

\* this.log(lvl, data) in the catch handler of the reaction t
HandlerSends(t, data) == LogSends(t.ent, t.lvl, data.code, data.error)

\* the call the catch handler of the reaction t makes for the failure err
Handled(t, data, err) ==
  [op |-> "reject", ent |-> t.ent, lvl |-> t.lvl, code |-> data.code,
   err |-> Some(err), at |-> t.at]

\* the promise of a dispatched action rejects with err: the catch handler
\* (e) => this.log(lvl, { code: 'dispatch_failed', error: format_error(e) })
reject(i, err, tx) ==
  /\ frames = <<>>
  /\ i \in 1..Len(tasks)
  /\ tasks[i].kind = "reaction"
  /\ tasks' = Without(tasks, i)
  /\ LET data == DispatchFailed(classes[ents[tasks[i].ent].cls].fmt, err)
     IN /\ sends' = Answered(HandlerSends(tasks[i], data), tx)
        /\ last' = Handled(tasks[i], data, err)
  /\ outcome' = IF tx = "raise" THEN "uncaught" ELSE "ok"
  /\ UNCHANGED <<classes, ents, metas, origin, Global, store, frames, flows, segs>>

\* ---------------------------------------------------------- specifications
Ents == 1..MaxEnts

\* Every operation, with its inputs from the sets above
Next ==
  \/ \E level \in Levels, fmt \in Formatters : init_logger(level, fmt)
  \/ \E e \in Ents, m \in UpdArgs(Actor) : upd_meta(e, m)
  \/ \E e \in Ents, seg \in {"a", "b"} : stack(e, seg)
  \/ \E e \in Ents, lvl \in Levels, code \in DataCodes, tx \in Transports :
       log(e, lvl, code, tx)
  \/ \E e \in Ents, name \in LevelNames, code \in DataCodes, tx \in Transports :
       method(e, name, code, tx)
  \/ \E e \in Ents : clone(e)
  \/ \E e \in Ents : cast(e)
  \/ await
  \/ return
  \/ throw
  \/ \E f \in Ents : resume(f)
  \/ \E e \in Ents, lvl \in Levels, act \in ActionKinds : dispatch(e, lvl, act)
  \/ \E e \in Ents, lvl \in Levels, sched \in Transports, tx \in Transports :
       timeout(e, lvl, IF sched = "ok" THEN "ok" ELSE "throws", tx)
  \/ \E e \in Ents, lvl \in Levels, act \in ActionKinds : interval(e, lvl, act)
  \/ \E i \in 1..MaxTasks, act \in ActionKinds : fire(i, act)
  \/ \E i \in 1..MaxTasks : resolve(i)
  \/ \E i \in 1..MaxTasks, err \in Failures, tx \in Transports : reject(i, err, tx)
  \/ \E op \in UseOps : uninitialized(op)

Spec == Init /\ [][Next]_vars

\* Scopes and metadata: one level, logging through info
NextScope ==
  \/ classes = <<>> /\ init_logger(4, "identity")
  \/ \E e \in Ents, m \in UpdArgs(Actor) : upd_meta(e, m)
  \/ \E e \in Ents, seg \in {"a", "b"} : stack(e, seg)
  \/ \E e \in Ents, code \in DataCodes : method(e, "info", code, "ok")
  \/ \E e \in Ents : clone(e)
  \/ \E e \in Ents : e \in LogTargets /\ cast(e)
  \/ await
  \/ return
  \/ throw
  \/ \E f \in Ents : resume(f)

SpecScope == Init /\ [][NextScope]_vars

\* Nesting: cast on any instance the running code can reach, no logging;
\* and the calls made before init_logger
NextNest ==
  \/ classes = <<>> /\ init_logger(4, "identity")
  \/ \E e \in Ents, m \in UpdArgs(Actor) : upd_meta(e, m)
  \/ \E e \in Ents, seg \in {"a", "b"} : stack(e, seg)
  \/ \E e \in Ents : clone(e)
  \/ \E e \in Ents : cast(e)
  \/ await
  \/ return
  \/ throw
  \/ \E f \in Ents : resume(f)
  \/ \E op \in UseOps : uninitialized(op)

SpecNest == Init /\ [][NextNest]_vars

\* Data mappings and the transport's answer: log and two level methods, the
\* transport returning or raising, the data mapping new or the one the
\* previous call was given
DataLevels == {2, 6}

Reused ==
  IF last.op \in {"log", "method"} /\ last.code \in DataCodes THEN {last.data}
  ELSE {}

NextData ==
  \/ classes = <<>> /\ init_logger(4, "identity")
  \/ \E e \in Ents, m \in UpdArgs(Actor) : upd_meta(e, m)
  \/ \E e \in Ents : stack(e, "a")
  \/ \E e \in Ents : clone(e)
  \/ \E e \in Ents, lvl \in DataLevels, code \in DataCodes \cup Reused,
        tx \in Transports : log(e, lvl, code, tx)
  \/ \E e \in Ents, lvl \in DataLevels, code \in DataCodes \cup Reused,
        tx \in Transports : method(e, LogLevelNameMap[lvl + 1], code, tx)

SpecData == Init /\ [][NextData]_vars

\* Levels: every level and every per-level method, on instances made by
\* init_logger and clone
NextLevels ==
  \/ \E level \in Levels : classes = <<>> /\ init_logger(level, "identity")
  \/ \E e \in Ents, m \in UpdArgs(Actor) : upd_meta(e, m)
  \/ \E e \in Ents : stack(e, "a")
  \/ \E e \in Ents, lvl \in Levels, tx \in Transports : log(e, lvl, Undefined, tx)
  \/ \E e \in Ents, name \in LevelNames, code \in DataCodes :
       method(e, name, code, "ok")
  \/ \E e \in Ents : clone(e)

SpecLevels == Init /\ [][NextLevels]_vars

\* Re-initialization: init_logger called again, at top level or inside a
\* scope, with every public operation of the instances around it; one
\* dispatch, timeout or interval call at a time; the n-th initialization is
\* at level InitLevels[n]
InitLevels == <<6, 2>>

NextInit ==
  \/ \E n \in 1..Len(InitLevels) :
       Len(classes) = n - 1 /\ init_logger(InitLevels[n], "identity")
  \/ \E e \in Ents, m \in UpdArgs(0) : upd_meta(e, m)
  \/ \E e \in Ents : stack(e, "a")
  \/ \E e \in Ents : log(e, 6, Undefined, "ok")
  \/ \E e \in Ents, name \in {"error", "info"} : method(e, name, Undefined, "ok")
  \/ \E e \in Ents : clone(e)
  \/ \E e \in Ents : e \in LogTargets /\ cast(e)
  \/ return
  \/ \E e \in Ents : tasks = <<>> /\ dispatch(e, 6, "promise")
  \/ \E e \in Ents : tasks = <<>> /\ timeout(e, 6, "ok", "ok")
  \/ \E e \in Ents : tasks = <<>> /\ interval(e, 6, "promise")
  \/ \E i \in 1..MaxTasks : fire(i, "promise")
  \/ \E i \in 1..MaxTasks : resolve(i)
  \/ \E i \in 1..MaxTasks : reject(i, PlainFailure, "ok")

SpecInit == Init /\ [][NextInit]_vars

\* Dispatch and timers on the global logger, at a level below and a level
\* above its minimum
AsyncLevels == {2, 6}

NextAsync ==
  \/ \E fmt \in Formatters : classes = <<>> /\ init_logger(4, fmt)
  \/ \E e \in Ents, m \in UpdArgs(Actor) : upd_meta(e, m)
  \/ \E e \in Ents : stack(e, "a")
  \/ \E e \in Ents, lvl \in AsyncLevels, act \in ActionKinds : dispatch(e, lvl, act)
  \/ \E e \in Ents, lvl \in AsyncLevels, tx \in Transports :
       timeout(e, lvl, "throws", tx)
  \/ \E e \in Ents, lvl \in AsyncLevels : timeout(e, lvl, "ok", "ok")
  \/ \E e \in Ents, act \in ActionKinds : interval(e, 6, act)
  \/ \E i \in 1..MaxTasks, act \in ActionKinds : fire(i, act)
  \/ \E i \in 1..MaxTasks : resolve(i)
  \/ \E i \in 1..MaxTasks, err \in Failures, tx \in Transports : reject(i, err, tx)

SpecAsync == Init /\ [][NextAsync]_vars

\* ------------------------------------------------------------- properties
FlowIds == 1..Len(flows)

SendIdx == 1..Len(sends)

\* the cast call that entered scope f has returned to its caller
CastReturned(f) == flows[f].st # "run" \/ flows[f].resumed

\* the instance scope f was derived from
ParentOf(f) == origin[flows[f].ent].from

\* neither scope's instance descends from the other's
Siblings(f, g) ==
  /\ f # g
  /\ flows[f].ent \notin Ancestors(flows[g].ent)
  /\ flows[g].ent \notin Ancestors(flows[f].ent)

Carries(meta, tag) == \E k \in DOMAIN meta : meta[k] = tag

RECURSIVE Joined(_)
\* s1.s2.....sn as a string, for n >= 1
Joined(ss) ==
  IF Len(ss) = 1 THEN <<ss[1]>>
  ELSE Joined(SubSeq(ss, 1, Len(ss) - 1)) \o <<".", ss[Len(ss)]>>

\* the code a record must carry after the segments ss, for data.code = code
ExpectedCode(ss, code) ==
  IF ss = <<>> THEN code
  ELSE Some(Joined(IF code = Undefined THEN ss ELSE Append(ss, code[1][1])))

\* C1: Scope isolation. What a callback run through P.cast has set with
\* upd_meta on its scope's instance is in the meta of every record logged on
\* that instance afterwards, before and after the suspension; and no record
\* logged on P once the cast call has returned carries it.
C1_ScopeIsolation ==
  \A i \in SendIdx, f \in FlowIds :
    /\ sends[i].ent = flows[f].ent =>
         \A k \in flows[f].wrote :
           k \in DOMAIN sends[i].meta /\ sends[i].meta[k] = f
    /\ (sends[i].ent = ParentOf(f) /\ CastReturned(f)) =>
         ~Carries(sends[i].meta, f)

\* a record is logged on P after the cast returned, while the scope's instance
\* holds what its callback wrote over P's own "id"
C1_Witness ==
  \E f \in FlowIds :
    /\ sends # <<>>
    /\ sends[1].ent = ParentOf(f)
    /\ CastReturned(f)
    /\ flows[f].resumed
    /\ "id" \in flows[f].wrote
    /\ "id" \in DOMAIN sends[1].meta
    /\ sends[1].meta["id"] = 0
    /\ MetaOf(flows[f].ent)["id"] = f

\* C2: The binding survives suspension without sibling leakage. Whatever the
\* interleaving of scopes at their suspension points, the running callback or
\* continuation gets its own scope's instance from use_logger(), and no record
\* logged through a scope's instance carries what a sibling scope set or stacked.
C2_BindingSurvives ==
  /\ frames # <<>> => use_logger = flows[Actor].ent
  /\ \A i \in SendIdx, f \in FlowIds, g \in FlowIds :
       (Siblings(f, g) /\ sends[i].ent = flows[g].ent) =>
         /\ ~Carries(sends[i].meta, f)
         /\ sends[i].by = g
         /\ sends[i].code = ExpectedCode(segs[flows[g].ent], last.code)

\* a continuation logs after its suspension while a sibling scope, which has
\* set metadata and stacked a segment of its own, is suspended
C2_Witness ==
  \E f \in FlowIds, g \in FlowIds :
    /\ Siblings(f, g)
    /\ sends # <<>>
    /\ sends[1].ent = flows[g].ent
    /\ flows[g].resumed
    /\ flows[g].st = "run"
    /\ flows[f].st = "susp"
    /\ flows[f].wrote # {}
    /\ segs[flows[f].ent] # segs[flows[g].ent]

\* the instance e was derived from, for a clone and for a scope's instance
Derived == {e \in 1..Len(ents) : origin[e].from # NoEnt}

\* C3: Metadata isolation under cloning. A clone or cast child starts with a
\* meta object of its own that equals its original's, and from then on the
\* meta of an instance changes only in an upd_meta call on that same instance:
\* never through a call on its clone, its child or its original.
C3_CloneIsolation ==
  [][/\ \A e \in 1..Len(ents) :
          MetaOf(e)' # MetaOf(e) => (last'.op = "upd_meta" /\ last'.ent = e)
     /\ Len(ents') > Len(ents) /\ last'.op \in {"clone", "cast"} =>
          /\ metas'[ents'[Len(ents')].meta] = MetaOf(last'.ent)
          /\ ents'[Len(ents')].meta # ents'[last'.ent].meta]_vars

\* a record is logged on an original whose clone or child has since got
\* different metadata
C3_Witness ==
  \E c \in Derived :
    /\ sends # <<>>
    /\ sends[1].ent = origin[c].from
    /\ MetaOf(c) # MetaOf(origin[c].from)
    /\ MetaOf(c) # EmptyMeta
    /\ sends[1].meta # EmptyMeta

IsPrefix(s, t) == Len(s) <= Len(t) /\ SubSeq(t, 1, Len(s)) = s

TracePrefix(old, new) ==
  old # Undefined => (new # Undefined /\ IsPrefix(old[1], new[1]))

\* C6: Trace accumulation. After stack(s1), ..., stack(sn) the trace is
\* s1.s2.....sn, a log call without data.code delivers that as code, one with
\* data.code = c delivers s1.s2.....sn.c, and with no stack call data.code is
\* delivered unchanged; every step leaves the old trace a prefix of the new.
C6_TraceAccumulation ==
  /\ [](/\ \A e \in 1..Len(ents) :
             ents[e].trace = IF segs[e] = <<>> THEN Undefined ELSE Some(Joined(segs[e]))
        /\ \A i \in SendIdx :
             last.op \in {"log", "method"} =>
               sends[i].code = ExpectedCode(segs[sends[i].ent], last.code))
  /\ [][\A e \in 1..Len(ents) : TracePrefix(ents[e].trace, ents'[e].trace)]_vars

\* a record with data.code = c is logged after stack("a") and stack("b")
C6_Witness ==
  /\ sends # <<>>
  /\ segs[sends[1].ent] = <<"a", "b">>
  /\ last.code = Some(<<"c">>)
  /\ sends[1].code = Some(<<"a", ".", "b", ".", "c">>)

\* every upd_meta argument of the model
AllUpdArgs == UNION {UpdArgs(tag) : tag \in 0..MaxEnts}

\* C8: upd_meta is a shallow in-place merge. After upd_meta(m) the meta has
\* m's value for every key of m and its previous value for every other key,
\* and every record logged on the instance carries exactly the instance's meta.
C8_ShallowMerge ==
  /\ [][\A e \in Ents, m \in AllUpdArgs :
          upd_meta(e, m) =>
            /\ DOMAIN MetaOf(e)' = DOMAIN MetaOf(e) \cup DOMAIN m
            /\ \A k \in DOMAIN m : MetaOf(e)'[k] = m[k]
            /\ \A k \in DOMAIN MetaOf(e) \ DOMAIN m : MetaOf(e)'[k] = MetaOf(e)[k]]_vars
  /\ [](\A i \in SendIdx : sends[i].meta = MetaOf(sends[i].ent))

\* a record carries a key inherited from the original beside a key set later
C8_Witness ==
  /\ sends # <<>>
  /\ DOMAIN sends[1].meta = {"id", "k"}
  /\ sends[1].meta["id"] = 0
  /\ sends[1].meta["k"] # 0

\* the minimum level of the class instance e belongs to
MinLevel(e) == classes[ents[e].cls].level

\* C4: Level filtering. The per-level method of level L sends nothing when
\* L > M and sends exactly one record (L, data, meta) when L <= M, M being the
\* level the instance's class was created with.
C4_LevelFiltering ==
  /\ \A c \in 1..Len(classes), name \in LevelNames :
       classes[c].proto[name] = "log" <=> LevelOf(name) <= classes[c].level
  /\ last.op = "method" =>
       IF last.lvl > MinLevel(last.ent)
         THEN sends = <<>>
         ELSE /\ Len(sends) = 1
              /\ sends[1].lvl = last.lvl
              /\ sends[1].ent = last.ent
              /\ sends[1].meta = MetaOf(last.ent)
              /\ sends[1].code = ExpectedCode(segs[last.ent], last.code)

\* the method of the minimum level itself is called on an instance that has
\* metadata and a trace, and sends
C4_Witness ==
  /\ last.op = "method"
  /\ last.lvl = MinLevel(last.ent)
  /\ Len(sends) = 1
  /\ MetaOf(last.ent) # EmptyMeta
  /\ segs[last.ent] # <<>>

\* a method above the minimum level is called and sends nothing
C4_WitnessFiltered ==
  /\ last.op = "method"
  /\ last.lvl = MinLevel(last.ent) + 1
  /\ sends = <<>>

\* C5: the transport is never invoked with a level above the minimum level of
\* the instance that sends.
C5_NeverAboveMinimum ==
  \A i \in SendIdx : sends[i].lvl <= MinLevel(sends[i].ent)

\* C7: Exactly-once synchronous hand-off. A log call, or a call of a per-level
\* method that is not filtered, has invoked the transport of the instance
\* exactly once when it returns, with the level given, the composed data and
\* the meta of the instance; no other call invokes a transport.
C7_ExactlyOnce ==
  LET accepted == \/ last.op = "log"
                  \/ last.op = "method" /\ last.lvl <= MinLevel(last.ent)
  IN /\ accepted =>
          /\ Len(sends) = 1
          /\ sends[1].tr = ents[last.ent].send
          /\ sends[1].lvl = last.lvl
          /\ sends[1].code = ExpectedCode(segs[last.ent], last.code)
          /\ sends[1].meta = MetaOf(last.ent)
     /\ last.op \in {"start", "init_logger", "upd_meta", "stack", "clone", "cast",
                     "await", "return", "throw", "resume"} => sends = <<>>

\* a direct log call above the minimum level has sent its one record
C7_Witness ==
  /\ last.op = "log"
  /\ last.lvl > MinLevel(last.ent)
  /\ Len(sends) = 1
  /\ sends[1].meta # EmptyMeta
  /\ segs[last.ent] # <<>>

\* C9: Dispatch containment. When the promise of a dispatched action rejects,
\* exactly one record is logged, at the level given to dispatch, with the code
\* 'dispatch_failed' (after the trace of the instance, if it has one) and the
\* formatter's rendering of the failure as error; when it fulfils, none is.
C9_DispatchContainment ==
  /\ last.op = "reject" =>
       /\ Len(sends) = 1
       /\ sends[1].lvl = last.lvl
       /\ sends[1].ent = last.ent
       /\ last.code = Some(<<"dispatch_failed">>)
       /\ sends[1].code = ExpectedCode(segs[last.ent], last.code)
       /\ sends[1].error = Some(Format(classes[ents[last.ent].cls].fmt, last.err[1]))
  /\ last.op \in {"resolve", "dispatch"} => sends = <<>>

\* the promise of an action dispatched above the minimum level rejects with
\* an Error that has a cause, on an instance with a trace, the logger being
\* configured with the library's formatter
C9_Witness ==
  /\ last.op = "reject"
  /\ classes[ents[last.ent].cls].fmt = "format_error"
  /\ last.err = Some(ErrorWithCause)
  /\ last.lvl > MinLevel(last.ent)
  /\ segs[last.ent] # <<>>
  /\ Len(sends) = 1
  /\ sends[1].error # last.err
  /\ sends[1].error[1]._cause[1]._stack = Some(<<<<"f (a.ts:1:1)">>, <<"g (a.ts:2:2)">>>>)

\* C10: a failure of the action never reaches the caller of dispatch, nor the
\* caller of timeout or interval: each of these calls returns normally.
C10_NeverPropagates ==
  /\ last.op \in {"dispatch", "interval"} => outcome = "ok"
  /\ (last.op = "timeout" /\ last.err = Undefined) => outcome = "ok"

\* C11: asynchronous logging failures are fully contained. When the promise
\* of a dispatched action rejects and the transport raises while the
\* 'dispatch_failed' record is logged, no exception and no unhandled rejection
\* escapes the handler.
C11_FullyContained == last.op = "reject" => outcome = "ok"

\* the scope the latest cast call entered
NewFlow == Len(flows)

\* C12 as stated: the instance of a new scope starts with the meta and the
\* trace of the instance use_logger() gave when cast was called (the innermost
\* active one, or the global logger outside every scope).
C12_DerivesFromActive ==
  last.op = "cast" =>
    /\ MetaOf(flows[NewFlow].ent) = MetaOf(flows[NewFlow].before)
    /\ ents[flows[NewFlow].ent].trace = ents[flows[NewFlow].before].trace

\* C12, amended: the instance of a new scope starts with a copy of the meta
\* and with the trace of the instance cast was called on; this is the
\* innermost active instance (or the global logger) when cast is called on
\* use_logger(), as cast_logger does.
C12_DerivesFromReceiver ==
  last.op = "cast" =>
    /\ origin[flows[NewFlow].ent].from = last.ent
    /\ MetaOf(flows[NewFlow].ent) = MetaOf(last.ent)
    /\ ents[flows[NewFlow].ent].meta # ents[last.ent].meta
    /\ ents[flows[NewFlow].ent].trace = ents[last.ent].trace
    /\ last.ent = flows[NewFlow].before =>
         /\ MetaOf(flows[NewFlow].ent) = MetaOf(use_logger)
         /\ ents[flows[NewFlow].ent].trace = ents[use_logger].trace

\* inside a scope that has set metadata, cast is called on an enclosing
\* instance instead of the active one
C12_Witness ==
  /\ last.op = "cast"
  /\ Len(frames) = 2
  /\ last.ent \in Ancestors(flows[NewFlow].before)
  /\ MetaOf(flows[NewFlow].before) # EmptyMeta
  /\ MetaOf(flows[NewFlow].ent) # MetaOf(flows[NewFlow].before)
  /\ MetaOf(flows[NewFlow].ent) # EmptyMeta

\* inside a scope that has set metadata and stacked a segment, cast is called
\* on the active instance
C12_WitnessNested ==
  /\ last.op = "cast"
  /\ Len(frames) = 2
  /\ last.ent = flows[NewFlow].before
  /\ Carries(MetaOf(flows[NewFlow].ent), frames[1].flow)
  /\ ents[flows[NewFlow].ent].trace # Undefined

\* C13: Exact restoration on scope exit. When a cast call returns to its
\* caller, the callback having returned, thrown or reached its first
\* suspension, use_logger() gives the instance it gave just before the cast
\* call, at any nesting depth.
C13_ExactRestoration ==
  \A f \in FlowIds :
    (/\ last.op \in {"await", "return", "throw"}
     /\ last.ent = flows[f].ent
     /\ ~flows[f].resumed) => use_logger = flows[f].before

\* a nested cast, called on an enclosing instance, ends with its callback
\* throwing: the enclosing scope's instance is active again
C13_Witness ==
  \E f \in FlowIds :
    /\ last.op = "throw"
    /\ last.ent = flows[f].ent
    /\ ~flows[f].resumed
    /\ Len(frames) = 1
    /\ use_logger = flows[f].before
    /\ use_logger # Global
    /\ origin[flows[f].ent].from = Global

\* a nested cast returns a pending result at its callback's first suspension
C13_WitnessAwait ==
  \E f \in FlowIds :
    /\ last.op = "await"
    /\ last.ent = flows[f].ent
    /\ Len(frames) = 1
    /\ use_logger = flows[f].before
    /\ use_logger # Global

\* the actions in progress that the interval call id has started
Running(id) ==
  {i \in 1..Len(tasks) :
     tasks[i].kind = "reaction" /\ tasks[i].src = "interval" /\ tasks[i].id = id}

\* C14: interval does not pile up. At no time are two executions of the action
\* of one interval call in progress together.
C14_NoPileUp == \A id \in 1..MaxTasks : Cardinality(Running(id)) <= 1

\* C16: dispatch logs with the state at failure time. The 'dispatch_failed'
\* record carries the meta and the trace prefix the instance has when the
\* rejection is handled, whatever they were when dispatch was called.
C16_StateAtFailureTime ==
  last.op = "reject" =>
    /\ Len(sends) = 1
    /\ sends[1].meta = MetaOf(last.ent)
    /\ sends[1].code = ComposeCode(ents[last.ent].trace, last.code)
    /\ sends[1].code = ExpectedCode(segs[last.ent], last.code)

\* upd_meta and stack were both called on the instance between the dispatch
\* call and the rejection
C16_Witness ==
  /\ last.op = "reject"
  /\ last.at.meta = EmptyMeta
  /\ last.at.trace = Undefined
  /\ Len(sends) = 1
  /\ sends[1].meta # EmptyMeta
  /\ sends[1].code # last.code

\* the timer of the interval call id is pending
Scheduled(ts, id) ==
  \E i \in 1..Len(ts) :
    ts[i].kind = "timer" /\ ts[i].src = "interval" /\ ts[i].id = id

\* C17: interval runs indefinitely. Each run of the timer's callback of an
\* interval leaves the timer pending again, whether or not the action fails:
\* no step loses the timer of an interval, so later executions never stop.
C17_RunsIndefinitely ==
  [][\A id \in 1..MaxTasks : Scheduled(tasks, id) => Scheduled(tasks', id)]_vars

\* C18: timeout defers one dispatch. timeout returns with the timer pending,
\* the action not invoked and nothing logged; a failure of the scheduling step
\* is logged at once with code 'timeout_failed' at the given level; and when the
\* timer has fired, the action's failure does not escape the timer's callback.
C18_DefersOneDispatch ==
  /\ (last.op = "timeout" /\ last.err = Undefined) =>
       /\ outcome = "ok"
       /\ sends = <<>>
       /\ tasks # <<>>
       /\ tasks[Len(tasks)] = Timer(last.ent, last.lvl, "timeout", 0)
  /\ (last.op = "timeout" /\ last.err # Undefined) =>
       /\ Len(sends) = 1
       /\ sends[1].lvl = last.lvl
       /\ sends[1].code = ExpectedCode(segs[last.ent], Some(<<"timeout_failed">>))
  /\ last.op = "timeout_fired" => outcome = "ok"

\* C15: uninitialized use is a defined configuration error. With no scope
\* active and no global logger, use_logger() still gives a Logger, and a call
\* made through it either works or fails with a configuration error.
C15_DefinedConfigurationError ==
  /\ last.op = "use_logger" => last.ent # NoEnt
  /\ (last.op \in UseOps /\ last.ent = NoEnt /\ outcome # "ok") =>
       last.err[1].class = "ConfigurationError"

\* the instances that existed before the step
Old == 1..Len(ents)

\* C19: re-initialization affects only the fallback. A second init_logger
\* makes a new global logger with empty meta, no trace, its own transport and
\* the level given; the store binding of the running scope, and the meta,
\* trace, transport and level filtering of every instance made before, are as
\* they were; outside every scope use_logger() gives the new global logger.
C19_ReinitOnlyFallback ==
  [][(last'.op = "init_logger" /\ ents' # ents /\ Global # NoEnt) =>
       /\ store' = store
       /\ frames' = frames
       /\ \A e \in Old :
            /\ ents'[e] = ents[e]
            /\ metas'[ents'[e].meta] = metas[ents[e].meta]
            /\ classes'[ents'[e].cls] = classes[ents[e].cls]
       /\ Global' \notin Old
       /\ metas'[ents'[Global'].meta] = EmptyMeta
       /\ ents'[Global'].trace = Undefined
       /\ \A e \in Old :
            /\ ents'[Global'].meta # ents[e].meta
            /\ ents'[Global'].send # ents[e].send
            /\ ents'[Global'].cls # ents[e].cls
       /\ classes'[ents'[Global'].cls].level = last'.lvl
       /\ classes'[ents'[Global'].cls].proto = BuildPrototype(last'.lvl)
       /\ use_logger' = IF store = NoEnt THEN Global' ELSE store]_vars

\* init_logger at another level has just been called again inside a scope
\* whose instance has metadata and a trace
C19_Witness ==
  /\ last.op = "init_logger"
  /\ Len(classes) = 2
  /\ classes[1].level # classes[2].level
  /\ frames # <<>>
  /\ use_logger # Global
  /\ MetaOf(use_logger) # EmptyMeta
  /\ ents[use_logger].trace # Undefined
  /\ MetaOf(Global) = EmptyMeta
  /\ ents[Global].send # ents[use_logger].send

\* the instance create_logger made, from which e descends
Root(e) ==
  IF origin[e].how = "root" THEN e
  ELSE CHOOSE a \in Ancestors(e) : origin[a].how = "root"

\* C20: minLevel and transport are fixed and inherited. No step changes the
\* transport or the level filtering of an existing instance; a clone or a
\* scope's instance has those of the instance it was made from; and every
\* level method filters by the level its instance's root was created with and
\* sends to that root's transport.
C20_FixedAndInherited ==
  /\ [](\A e \in Old :
          /\ origin[e].from # NoEnt =>
               /\ ents[e].send = ents[origin[e].from].send
               /\ ents[e].cls = ents[origin[e].from].cls
          /\ classes[ents[e].cls].proto = BuildPrototype(MinLevel(Root(e))))
  /\ [](last.op = "method" =>
          /\ sends # <<>> <=> last.lvl <= MinLevel(Root(last.ent))
          /\ \A i \in SendIdx : sends[i].tr = ents[Root(last.ent)].send)
  /\ [][\A e \in Old :
          /\ ents'[e].send = ents[e].send
          /\ ents'[e].cls = ents[e].cls
          /\ classes'[ents'[e].cls] = classes[ents[e].cls]]_vars

\* after a re-initialization at a lower level, info is called on a clone made
\* since then from the first global logger: it is sent, to the first transport
C20_Witness ==
  /\ last.op = "method"
  /\ last.lvl = 4
  /\ sends # <<>>
  /\ origin[last.ent].how = "clone"
  /\ Global # NoEnt
  /\ last.ent > Global
  /\ MinLevel(Global) < 4
  /\ sends[1].tr # ents[Global].send

\* C21: a transport failure in a direct log call reaches the caller and
\* corrupts nothing. When the transport raises during log or a level method
\* that is not filtered, the call throws, the transport was invoked once, and
\* every instance has the meta and the trace it had before the call.
C21_TransportFailure ==
  [][(/\ last'.op \in {"log", "method"}
      /\ sends' # <<>>
      /\ sends'[1].res = "raise") =>
       /\ outcome' = "threw"
       /\ Len(sends') = 1
       /\ ents' = ents
       /\ metas' = metas
       /\ segs' = segs]_vars

\* the transport has raised during a level method called on an instance that
\* has metadata and a trace
C21_Witness ==
  /\ last.op = "method"
  /\ sends # <<>>
  /\ sends[1].res = "raise"
  /\ outcome = "threw"
  /\ MetaOf(last.ent) # EmptyMeta
  /\ ents[last.ent].trace # Undefined

\* C22: logging is repeatable for the same input. When log is called again on
\* the same instance with the data mapping the previous log call was given,
\* the instance's meta and trace being unchanged, the transport gets the same
\* code as the first time.
C22_Repeatable ==
  [][(/\ last.op = "log"
      /\ last'.op = "log"
      /\ last'.ent = last.ent
      /\ last'.code = last.data
      /\ ents' = ents
      /\ metas' = metas) => sends'[1].code = sends[1].code]_vars

====
